---- MODULE Spec2Model ----
(***************************************************************************)
(* EZInput: the PressState / AxisState state machine (src/state.rs) and    *)
(* the gamepad event translator (src/gamepad.rs).                          *)
(*                                                                         *)
(* f32 magnitudes are fixed-point hundredths (0.1 is 10) plus NaN;         *)
(* instants and durations are counted in clock units, UnitsPerMilli to the *)
(* millisecond.                                                            *)
(***************************************************************************)
EXTENDS Integers, Sequences, FiniteSets

VARIABLES markers, views, batch, idx, start, now, tick, call, agg

vars == <<markers, views, batch, idx, start, now, tick, call, agg>>

(***************************************************************************)
(* Bounds of the model.                                                    *)
(***************************************************************************)
MaxBatch == 2
MaxTicks == 2
MaxClock == 4
MaxLen == 2
MaxCalls == 2
UnitsPerMilli == 2

(***************************************************************************)
(* f32                                                                     *)
(***************************************************************************)
F(n) == [nan |-> FALSE, x |-> n]
NaN == [nan |-> TRUE, x |-> 0]

\* f32::abs: the magnitude; NaN stays NaN.
FAbs(f) == IF f.nan THEN f ELSE F(IF f.x < 0 THEN -f.x ELSE f.x)

\* f32 <=: false as soon as one side is NaN.
FLe(f, g) == ~f.nan /\ ~g.nan /\ f.x <= g.x

\* The literal 0.1 of the dead-zone test, in hundredths.
DeadZone == 10

(***************************************************************************)
(* Option<T>: None is the empty tuple, Some(x) the one-element tuple.      *)
(***************************************************************************)
None == <<>>
Some(x) == <<x>>

\* OptionCmp with None sorting last instead of first.
OptionCmp_none_last(a, b) ==
    IF a = None
    THEN (IF b = None THEN "Equal" ELSE "Greater")
    ELSE IF b = None THEN "Less"
    ELSE IF a[1] < b[1] THEN "Less"
    ELSE IF a[1] > b[1] THEN "Greater"
    ELSE "Equal"

\* Option<Instant>::cmp (derived Ord of Option): None < Some(_), Some by value.
OptionCmp(a, b) ==
    IF a = None
    THEN (IF b = None THEN "Equal" ELSE "Less")
    ELSE IF b = None THEN "Greater"
    ELSE IF a[1] < b[1] THEN "Less"
    ELSE IF a[1] > b[1] THEN "Greater"
    ELSE "Equal"

(***************************************************************************)
(* PressState                                                              *)
(***************************************************************************)
Released == [variant |-> "Released", started_pressing_instant |-> None]
Pressed(o) == [variant |-> "Pressed", started_pressing_instant |-> o]

\* Instant::elapsed at clock reading t: saturating now - instant.
InstantElapsed(instant, t) == IF t >= instant THEN t - instant ELSE 0

\* Duration::as_millis: whole milliseconds, the fraction dropped.
as_millis(d) == d \div UnitsPerMilli

\* The literal 1 of `instant.elapsed().as_millis() <= 1`.
JustPressedMillis == 1

released(s) == s = Released

\* is_pressed_for counting a press without an instant as pressed for zero time.
is_pressed_for_unstamped(s, duration, t) ==
    IF s.variant = "Pressed"
    THEN IF s.started_pressing_instant # None
         THEN InstantElapsed(s.started_pressing_instant[1], t) >= duration
         ELSE 0 >= duration
    ELSE FALSE

is_pressed_for(s, duration, t) ==
    IF s.variant = "Pressed"
    THEN /\ s.started_pressing_instant # None
         /\ InstantElapsed(s.started_pressing_instant[1], t) >= duration
    ELSE FALSE

\* pressed() asking for an instant as well.
pressed_stamped(s) == s.variant = "Pressed" /\ s.started_pressing_instant # None

pressed(s) == s.variant = "Pressed"

\* elapsed() without the fallback to Duration::ZERO.
elapsed_stamped_only(s, t) ==
    IF s.variant = "Pressed" /\ s.started_pressing_instant # None
    THEN Some(InstantElapsed(s.started_pressing_instant[1], t))
    ELSE None

\* elapsed(): Option<Duration>
elapsed(s, t) ==
    IF s.variant = "Pressed"
    THEN IF s.started_pressing_instant # None
         THEN Some(InstantElapsed(s.started_pressing_instant[1], t))
         ELSE Some(0)
    ELSE None

just_pressed(s, t) ==
    IF s.variant = "Pressed"
    THEN IF s.started_pressing_instant # None
         THEN as_millis(InstantElapsed(s.started_pressing_instant[1], t)) <= JustPressedMillis
         ELSE TRUE
    ELSE FALSE

\* partial_cmp with the two instants compared the wrong way round.
partial_cmp_reversed(a, b) ==
    IF a.variant = "Pressed"
    THEN IF b.variant = "Pressed"
         THEN Some(OptionCmp(b.started_pressing_instant, a.started_pressing_instant))
         ELSE Some("Greater")
    ELSE IF b.variant = "Pressed"
         THEN Some("Less")
         ELSE Some("Equal")

\* partial_cmp looking at the variants only.
partial_cmp_variant_only(a, b) ==
    IF a.variant = "Pressed"
    THEN IF b.variant = "Pressed" THEN Some("Equal") ELSE Some("Greater")
    ELSE IF b.variant = "Pressed" THEN Some("Less") ELSE Some("Equal")

partial_cmp(a, b) ==
    IF a.variant = "Pressed"
    THEN IF b.variant = "Pressed"
         THEN Some(OptionCmp(a.started_pressing_instant, b.started_pressing_instant))
         ELSE Some("Greater")
    ELSE IF b.variant = "Pressed"
         THEN Some("Less")
         ELSE Some("Equal")

\* Ord::cmp: partial_cmp(..).unwrap()
cmp(a, b) == partial_cmp(a, b)[1]

(***************************************************************************)
(* AxisState                                                               *)
(***************************************************************************)
AxisState_new(value, press) == [value |-> value, press |-> press]
ZERO == AxisState_new(F(0), Released)
AxisState_set(s, value, press) == [s EXCEPT !.value = value, !.press = press]

(***************************************************************************)
(* AxisStateVecExt.  An iterator over a slice is the part of the slice not *)
(* yet consumed; Iterator::all consumes up to and including the first      *)
(* element its closure rejects and yields the verdict with what is left.   *)
(***************************************************************************)
\* all(|s| s.press.pressed())
RECURSIVE all_pressed(_)
all_pressed(it) ==
    IF it = <<>> THEN <<TRUE, <<>>>>
    ELSE IF pressed(Head(it).press) THEN all_pressed(Tail(it))
    ELSE <<FALSE, Tail(it)>>

\* all(|s| s.press.just_pressed()), at clock reading t
RECURSIVE all_just_pressed(_, _)
all_just_pressed(it, t) ==
    IF it = <<>> THEN <<TRUE, <<>>>>
    ELSE IF just_pressed(Head(it).press, t) THEN all_just_pressed(Tail(it), t)
    ELSE <<FALSE, Tail(it)>>

\* all(|s| s.press.released())
RECURSIVE all_released(_)
all_released(it) ==
    IF it = <<>> THEN <<TRUE, <<>>>>
    ELSE IF released(Head(it).press) THEN all_released(Tail(it))
    ELSE <<FALSE, Tail(it)>>

\* Vec_is_all_pressed answering false for the empty Vec.
Vec_is_all_pressed_nonempty(v) == v # <<>> /\ all_pressed(v)[1]

\* impl AxisStateVecExt for Vec<AxisState>: self.iter() is a fresh iterator over
\* the whole Vec at every call.
Vec_is_all_pressed(v) == all_pressed(v)[1]
Vec_is_all_just_pressed(v, t) == all_just_pressed(v, t)[1]
Vec_is_all_released(v) == all_released(v)[1]

\* impl AxisStateVecExt for Iter<'_, AxisState>: self is advanced by the call.
Iter_is_all_pressed(it) == all_pressed(it)
Iter_is_all_just_pressed(it, t) == all_just_pressed(it, t)
Iter_is_all_released(it) == all_released(it)

(***************************************************************************)
(* Receivers, views, events                                                *)
(***************************************************************************)
GamepadButtonTypes == {"South", "East"}
GamepadAxisTypes == {"LeftStickX"}
GamepadButton(k) == <<"GamepadButton", k>>
GamepadAxis(k) == <<"GamepadAxis", k>>
Receivers ==
    {GamepadButton(k) : k \in GamepadButtonTypes} \cup {GamepadAxis(k) : k \in GamepadAxisTypes}

ViewIds == {1, 2}
Gamepads == {0, 1}

\* InputView: the receiver -> AxisState mapping and the last input source.
NewView == [last_input_source |-> None, axis |-> [r \in Receivers |-> ZERO]]

set_key_receiver_state(view, key, state) ==
    [view EXCEPT !.axis[key].press = state]

set_axis_value(view, key, value, state) ==
    [view EXCEPT !.axis[key] = AxisState_set(@, value, state)]

\* The consumer's per-tick stamp pass: a press still without an instant gets the
\* current one.
stamp_press(s, t) == IF s = Pressed(None) THEN Pressed(Some(t)) ELSE s

stamp_view(view, t) ==
    [view EXCEPT !.axis = [r \in Receivers |-> [@[r] EXCEPT !.press = stamp_press(@, t)]]]

\* GamepadEvent { gamepad, event_type }: ButtonChanged(kind, value),
\* AxisChanged(kind, value), or another kind (Connected).
ButtonChanged(g, k, v) == [gamepad |-> g, event_type |-> "ButtonChanged", kind |-> k, value |-> v]
AxisChanged(g, k, v) == [gamepad |-> g, event_type |-> "AxisChanged", kind |-> k, value |-> v]
Connected(g) == [gamepad |-> g, event_type |-> "Connected", kind |-> "-", value |-> F(0)]

(***************************************************************************)
(* GamepadMarker                                                           *)
(***************************************************************************)
\* set_gamepad_button_state writing every button of the view, whatever the kind.
set_gamepad_button_state_any_button(view, button, state, duration) ==
    [view EXCEPT !.last_input_source = Some("Gamepad"),
                 !.axis = [r \in Receivers |->
                             IF r[1] = "GamepadButton"
                             THEN AxisState_new(duration, state) ELSE @[r]]]

\* set_gamepad_button_state recording the source only for a press.
set_gamepad_button_state_press_only(view, button, state, duration) ==
    LET sourced == IF state = Released THEN view
                   ELSE [view EXCEPT !.last_input_source = Some("Gamepad")]
        keyed == set_key_receiver_state(sourced, GamepadButton(button), state)
    IN  set_axis_value(keyed, GamepadButton(button), duration, state)

set_gamepad_button_state(view, button, state, duration) ==
    LET sourced == [view EXCEPT !.last_input_source = Some("Gamepad")]
        keyed == set_key_receiver_state(sourced, GamepadButton(button), state)
    IN  set_axis_value(keyed, GamepadButton(button), duration, state)

\* set_gamepad_axis_state putting every other receiver of the view back to rest.
set_gamepad_axis_state_resetting(view, axis, state, duration) ==
    [view EXCEPT !.last_input_source = Some("Gamepad"),
                 !.axis = [r \in Receivers |->
                             IF r = GamepadAxis(axis)
                             THEN AxisState_new(duration, state) ELSE ZERO]]

set_gamepad_axis_state(view, axis, state, duration) ==
    LET sourced == [view EXCEPT !.last_input_source = Some("Gamepad")]
        keyed == set_key_receiver_state(sourced, GamepadAxis(axis), state)
    IN  set_axis_value(keyed, GamepadAxis(axis), duration, state)

(***************************************************************************)
(* gamepad_input_system                                                    *)
(***************************************************************************)
\* button_state with the comparison strict: the boundary 0.1 counts as pressed.
button_state_strict(duration) ==
    IF FLe(FAbs(duration), F(DeadZone)) /\ FAbs(duration) # F(DeadZone)
    THEN Released ELSE Pressed(None)

\* The dead-zone classification of a ButtonChanged magnitude.
button_state(duration) ==
    IF FLe(FAbs(duration), F(DeadZone)) THEN Released ELSE Pressed(None)

\* axis_state comparing the signed value, without abs().
axis_state_no_abs(value) ==
    IF FLe(value, F(DeadZone)) THEN Released ELSE Pressed(None)

\* The dead-zone classification of an AxisChanged magnitude.
axis_state(value) ==
    IF FLe(FAbs(value), F(DeadZone)) THEN Released ELSE Pressed(None)

\* button_scan without the break: every view bound to the gamepad is written.
button_scan_no_break(vs, ms, ev, i) ==
    [v \in DOMAIN vs |->
        IF v >= i /\ ev.gamepad = ms[v]
        THEN set_gamepad_button_state(vs[v], ev.kind, button_state(ev.value), ev.value)
        ELSE vs[v]]

\* axis_scan writing the first view when no marker is the event's gamepad.
axis_scan_fallback(vs, ms, ev, i) ==
    LET hits == {v \in DOMAIN vs : v >= i /\ ev.gamepad = ms[v]}
        v == IF hits = {} THEN 1 ELSE CHOOSE h \in hits : \A g \in hits : h <= g
    IN  [vs EXCEPT ![v] =
            set_gamepad_axis_state(@, ev.kind, axis_state(ev.value), ev.value)]

\* for (view, svc) in query.iter_mut(): skip the markers of other gamepads, write
\* the first view whose marker is the event's gamepad, and break.
RECURSIVE button_scan(_, _, _, _)
button_scan(vs, ms, ev, i) ==
    IF i > Len(vs) THEN vs
    ELSE IF ev.gamepad # ms[i] THEN button_scan(vs, ms, ev, i + 1)
    ELSE [vs EXCEPT ![i] =
            set_gamepad_button_state(@, ev.kind, button_state(ev.value), ev.value)]

RECURSIVE axis_scan(_, _, _, _)
axis_scan(vs, ms, ev, i) ==
    IF i > Len(vs) THEN vs
    ELSE IF ev.gamepad # ms[i] THEN axis_scan(vs, ms, ev, i + 1)
    ELSE [vs EXCEPT ![i] =
            set_gamepad_axis_state(@, ev.kind, axis_state(ev.value), ev.value)]

\* match ev.event_type { ButtonChanged .. AxisChanged .. _ => {} }
handle_event(vs, ms, ev) ==
    CASE ev.event_type = "ButtonChanged" -> button_scan(vs, ms, ev, 1)
      [] ev.event_type = "AxisChanged" -> axis_scan(vs, ms, ev, 1)
      [] OTHER -> vs

\* next_event reading the batch from its end.
next_event_reversed(b, i) == b[Len(b) + 1 - i]

\* for ev in rd.iter(): the i-th event read is the i-th that arrived.
next_event(b, i) == b[i]

(***************************************************************************)
(* Inputs                                                                  *)
(***************************************************************************)
Magnitudes == {F(-11), F(5), F(10), F(90), NaN}

Events ==
    {ButtonChanged(g, k, v) : g \in Gamepads, k \in GamepadButtonTypes, v \in Magnitudes}
    \cup {AxisChanged(g, k, v) : g \in Gamepads, k \in GamepadAxisTypes, v \in Magnitudes}
    \cup {Connected(0)}

\* The readings of one button and one stick of gamepad 0, at rest or held.
HeldEvents ==
    {ButtonChanged(0, k, v) : k \in {"South"}, v \in {F(5), F(90)}}
    \cup {AxisChanged(0, k, v) : k \in GamepadAxisTypes, v \in {F(5), F(90)}}

Batches(E) == UNION {[1..n -> E] : n \in 0..MaxBatch}

\* A view whose receivers have all been held since instant 0 and whose last
\* change came from the keyboard.
HeldView ==
    [last_input_source |-> Some("Keyboard"),
     axis |-> [r \in Receivers |-> AxisState_new(F(90), Pressed(Some(0)))]]

Instants == 0..MaxClock
PressStates == {Released, Pressed(None)} \cup {Pressed(Some(t)) : t \in Instants}

\* The press states a receiver can hold at clock reading t: instants are
\* readings of the clock, so none is later than t.
PressStatesAt(t) == {Released, Pressed(None)} \cup {Pressed(Some(i)) : i \in 0..t}

Durations == 0..MaxClock

\* A call of a PressState method: the receiver and the arguments it takes (the
\* others at their defaults), and what it returned, once it has.
NewCall(op, self, other, third, duration) ==
    [op |-> op, self |-> self, other |-> other, third |-> third,
     duration |-> duration, ret |-> None]
NoCall == NewCall("none", Released, Released, Released, 0)

\* The AxisStates the aggregate predicates are applied to.
AxisStates ==
    {ZERO, AxisState_new(F(90), Pressed(None)), AxisState_new(F(90), Pressed(Some(0)))}

AxisStateSeqs == UNION {[1..n -> AxisStates] : n \in 0..MaxLen}

\* A Vec<AxisState> (elems), a slice iterator over the same elements (rest: what
\* it has not consumed), and what the last call on each returned.
NewAgg(v) == [elems |-> v, rest |-> v, op |-> "none", vec_ret |-> None, iter_ret |-> None, calls |-> 0]
NoAgg == NewAgg(<<>>)

(***************************************************************************)
(* Actions                                                                 *)
(***************************************************************************)
\* The host hands the tick's pending events to the EventReader.
Deliver(b) ==
    /\ idx = 0
    /\ batch' = b
    /\ idx' = 1
    /\ UNCHANGED <<markers, views, start, now, tick, call, agg>>

\* One iteration of `for ev in rd.iter()`.
Translate ==
    /\ idx >= 1
    /\ idx <= Len(batch)
    /\ views' = handle_event(views, markers, next_event(batch, idx))
    /\ idx' = idx + 1
    /\ UNCHANGED <<markers, batch, start, now, tick, call, agg>>

\* The clock moves on once the translator has run to completion.
Elapse ==
    /\ idx > Len(batch)
    /\ now < MaxClock
    /\ now' = now + 1
    /\ UNCHANGED <<markers, views, batch, idx, start, tick, call, agg>>

\* The next tick begins: the stamp pass runs over every view.
Stamp ==
    /\ idx > Len(batch)
    /\ tick < MaxTicks
    /\ views' = [v \in DOMAIN views |-> stamp_view(views[v], now)]
    /\ start' = views'
    /\ tick' = tick + 1
    /\ batch' = <<>>
    /\ idx' = 0
    /\ UNCHANGED <<markers, now, call, agg>>

\* a.cmp(&b)
CallCmp ==
    /\ call.op = "cmp"
    /\ call.ret = None
    /\ call' = [call EXCEPT !.ret = Some(cmp(call.self, call.other))]
    /\ UNCHANGED <<markers, views, batch, idx, start, now, tick, agg>>

\* s.just_pressed()
CallJustPressed ==
    /\ call.op = "just_pressed"
    /\ call.ret = None
    /\ call' = [call EXCEPT !.ret = Some(just_pressed(call.self, now))]
    /\ UNCHANGED <<markers, views, batch, idx, start, now, tick, agg>>

\* s.is_pressed_for(duration)
CallIsPressedFor ==
    /\ call.op = "is_pressed_for"
    /\ call.ret = None
    /\ call' = [call EXCEPT !.ret = Some(is_pressed_for(call.self, call.duration, now))]
    /\ UNCHANGED <<markers, views, batch, idx, start, now, tick, agg>>

\* s.elapsed()
CallElapsed ==
    /\ call.op = "elapsed"
    /\ call.ret = None
    /\ call' = [call EXCEPT !.ret = Some(elapsed(call.self, now))]
    /\ UNCHANGED <<markers, views, batch, idx, start, now, tick, agg>>

\* Every comparison a sort, min or max over three press states can make.
CallCmpAll ==
    /\ call.op = "cmp_all"
    /\ call.ret = None
    /\ LET x == <<call.self, call.other, call.third>>
       IN  call' = [call EXCEPT !.ret =
                      Some([p \in (1..3) \X (1..3) |-> partial_cmp(x[p[1]], x[p[2]])])]
    /\ UNCHANGED <<markers, views, batch, idx, start, now, tick, agg>>

\* Every query of one press state, at one clock reading.
CallQueries ==
    /\ call.op = "queries"
    /\ call.ret = None
    /\ call' = [call EXCEPT !.ret =
                  Some([released |-> released(call.self),
                        pressed |-> pressed(call.self),
                        just_pressed |-> just_pressed(call.self, now),
                        is_pressed_for |->
                            [d \in Durations |-> is_pressed_for(call.self, d, now)]])]
    /\ UNCHANGED <<markers, views, batch, idx, start, now, tick, agg>>

\* The same predicate called on the Vec and on the iterator.
CallIsAllPressed ==
    /\ agg.calls < MaxCalls
    /\ LET r == Iter_is_all_pressed(agg.rest)
       IN  agg' = [agg EXCEPT !.op = "is_all_pressed",
                              !.vec_ret = Some(Vec_is_all_pressed(agg.elems)),
                              !.iter_ret = Some(r[1]),
                              !.rest = r[2],
                              !.calls = @ + 1]
    /\ UNCHANGED <<markers, views, batch, idx, start, now, tick, call>>

CallIsAllJustPressed ==
    /\ agg.calls < MaxCalls
    /\ LET r == Iter_is_all_just_pressed(agg.rest, now)
       IN  agg' = [agg EXCEPT !.op = "is_all_just_pressed",
                              !.vec_ret = Some(Vec_is_all_just_pressed(agg.elems, now)),
                              !.iter_ret = Some(r[1]),
                              !.rest = r[2],
                              !.calls = @ + 1]
    /\ UNCHANGED <<markers, views, batch, idx, start, now, tick, call>>

CallIsAllReleased ==
    /\ agg.calls < MaxCalls
    /\ LET r == Iter_is_all_released(agg.rest)
       IN  agg' = [agg EXCEPT !.op = "is_all_released",
                              !.vec_ret = Some(Vec_is_all_released(agg.elems)),
                              !.iter_ret = Some(r[1]),
                              !.rest = r[2],
                              !.calls = @ + 1]
    /\ UNCHANGED <<markers, views, batch, idx, start, now, tick, call>>

(***************************************************************************)
(* Spec: one run of the translator over one batch, the views all new or    *)
(* all held, the markers bound to any gamepads.                            *)
(***************************************************************************)
Init ==
    /\ markers \in [ViewIds -> Gamepads]
    /\ views \in {[v \in ViewIds |-> w] : w \in {NewView, HeldView}}
    /\ start = views
    /\ batch = <<>>
    /\ idx = 0
    /\ now = 0
    /\ tick = 1
    /\ call = NoCall
    /\ agg = NoAgg

Next ==
    \/ idx = 0 /\ \E b \in Batches(Events) : Deliver(b)
    \/ Translate

Spec == Init /\ [][Next]_vars

(***************************************************************************)
(* SpecTicks: translator, clock and stamp pass over several ticks, for one *)
(* gamepad.                                                                *)
(***************************************************************************)
InitTicks ==
    /\ markers = [v \in ViewIds |-> v - 1]
    /\ views = [v \in ViewIds |-> NewView]
    /\ start = views
    /\ batch = <<>>
    /\ idx = 0
    /\ now = 0
    /\ tick = 1
    /\ call = NoCall
    /\ agg = NoAgg

NextTicks ==
    \/ idx = 0 /\ \E b \in Batches(HeldEvents) : Deliver(b)
    \/ Translate
    \/ Elapse
    \/ Stamp

SpecTicks == InitTicks /\ [][NextTicks]_vars

(***************************************************************************)
(* SpecCalls: the queries of PressState, applied to drawn states at a      *)
(* drawn clock reading.                                                    *)
(***************************************************************************)
InitCalls ==
    /\ markers = [v \in ViewIds |-> v - 1]
    /\ views = [v \in ViewIds |-> NewView]
    /\ start = views
    /\ batch = <<>>
    /\ idx = 0
    /\ now \in Instants
    /\ tick = 1
    /\ \/ call \in {NewCall("cmp", a, b, Released, 0) : a \in PressStates, b \in PressStates}
       \/ call \in {NewCall("just_pressed", a, Released, Released, 0) : a \in PressStates}
       \/ call \in {NewCall("is_pressed_for", a, Released, Released, d) :
                        a \in PressStatesAt(now), d \in Durations}
       \/ call \in {NewCall("elapsed", a, Released, Released, 0) : a \in PressStatesAt(now)}
       \/ call \in {NewCall("cmp_all", a, b[1], b[2], 0) :
                        a \in PressStates, b \in PressStates \X PressStates}
       \/ call \in {NewCall("queries", a, Released, Released, 0) : a \in PressStatesAt(now)}
    /\ agg = NoAgg

NextCalls ==
    \/ CallCmp
    \/ CallJustPressed
    \/ CallIsPressedFor
    \/ CallElapsed
    \/ CallCmpAll
    \/ CallQueries

SpecCalls == InitCalls /\ [][NextCalls]_vars

(***************************************************************************)
(* SpecAggregates: series of aggregate calls on a drawn Vec<AxisState> and *)
(* on one slice iterator over it, at a drawn clock reading.                *)
(***************************************************************************)
InitAggregates ==
    /\ markers = [v \in ViewIds |-> v - 1]
    /\ views = [v \in ViewIds |-> NewView]
    /\ start = views
    /\ batch = <<>>
    /\ idx = 0
    /\ now \in Instants
    /\ tick = 1
    /\ call = NoCall
    /\ agg \in {NewAgg(v) : v \in AxisStateSeqs}

NextAggregates ==
    \/ CallIsAllPressed
    \/ CallIsAllJustPressed
    \/ CallIsAllReleased

SpecAggregates == InitAggregates /\ [][NextAggregates]_vars

(***************************************************************************)
(* Vocabulary of the properties                                            *)
(***************************************************************************)
\* |v| <= 0.1
InDeadZone(f) == ~f.nan /\ -DeadZone <= f.x /\ f.x <= DeadZone

Classified(f) == IF InDeadZone(f) THEN Released ELSE Pressed(None)

IsChange(ev) == ev.event_type \in {"ButtonChanged", "AxisChanged"}

Bound(ev) == \E v \in ViewIds : markers[v] = ev.gamepad

FirstBound(ev) ==
    CHOOSE v \in ViewIds :
        /\ markers[v] = ev.gamepad
        /\ \A u \in ViewIds : markers[u] = ev.gamepad => v <= u

Matched(ev) == IsChange(ev) /\ Bound(ev)

ReceiverOf(ev) ==
    IF ev.event_type = "ButtonChanged" THEN GamepadButton(ev.kind) ELSE GamepadAxis(ev.kind)

\* The i-th event of the batch is written to receiver r of view v.
Targets(i, v, r) ==
    /\ Matched(batch[i])
    /\ FirstBound(batch[i]) = v
    /\ ReceiverOf(batch[i]) = r

\* The translator has processed at least one event of the batch.
Processed == idx > 1

\* The translator has run over the whole batch.
Translated == idx >= 1 /\ idx > Len(batch)

\* The step about to be taken is one iteration of the translator's loop.
TranslateStep == idx >= 1 /\ idx <= Len(batch) /\ idx' # idx

(***************************************************************************)
(* C1. After a ButtonChanged or AxisChanged event of magnitude v for a     *)
(* bound gamepad, the receiver the event names, in the first view bound to *)
(* that gamepad, is Released if |v| <= 0.1 and Pressed(None) otherwise,    *)
(* and its stored value is v itself.                                       *)
(***************************************************************************)
C1_DeadZoneClassification ==
    Processed /\ Matched(batch[idx - 1]) =>
        LET ev == batch[idx - 1]
            a == views[FirstBound(ev)].axis[ReceiverOf(ev)]
        IN  /\ a.press = (IF InDeadZone(ev.value) THEN Released ELSE Pressed(None))
            /\ a.value = ev.value

\* A negative magnitude beyond the dead zone was stored raw and classified pressed.
C1_Witness ==
    /\ Processed
    /\ Matched(batch[idx - 1])
    /\ batch[idx - 1].value = F(-11)
    /\ views[FirstBound(batch[idx - 1])].axis[ReceiverOf(batch[idx - 1])]
         = AxisState_new(F(-11), Pressed(None))

(***************************************************************************)
(* C2. When several views are bound to the event's gamepad, the event is   *)
(* written to the first of them and leaves every later one as it was.      *)
(***************************************************************************)
C2_FirstViewOnly ==
    [][TranslateStep /\ Matched(batch[idx]) =>
        LET ev == batch[idx]
            v == FirstBound(ev)
        IN  /\ views'[v].axis[ReceiverOf(ev)] = AxisState_new(ev.value, Classified(ev.value))
            /\ \A w \in ViewIds : w # v /\ markers[w] = ev.gamepad => views'[w] = views[w]
      ]_vars

\* Both views are bound to the gamepad of the first event; the first view took the
\* press, the second is as it started.
C2_Witness ==
    /\ idx = 2
    /\ markers[1] = markers[2]
    /\ Matched(batch[1])
    /\ batch[1].value = F(90)
    /\ start[1] = NewView
    /\ start[2] = NewView
    /\ views[1].axis[ReceiverOf(batch[1])].press = Pressed(None)
    /\ views[2] = NewView

(***************************************************************************)
(* C3. An event for a gamepad no marker is bound to, or of another kind    *)
(* than ButtonChanged and AxisChanged, changes no view, and the translator *)
(* goes on to the next event of the batch.                                 *)
(***************************************************************************)
C3_SkippedEventsChangeNothing ==
    [][TranslateStep /\ ~Matched(batch[idx]) => views' = views /\ idx' = idx + 1]_vars

\* The first event was skipped and the second, after it, was still written.
C3_Witness ==
    /\ idx = 3
    /\ ~Matched(batch[1])
    /\ Matched(batch[2])
    /\ batch[2].value = F(90)
    /\ start[FirstBound(batch[2])] = NewView
    /\ views[FirstBound(batch[2])].axis[ReceiverOf(batch[2])].press = Pressed(None)

(***************************************************************************)
(* C4. A receiver that was already pressed when the tick began, and that   *)
(* no dead-zone event released during the tick, does not read Pressed(None)*)
(* once the translator has run: Pressed(None) lasts one tick only.         *)
(***************************************************************************)
C4_NoneOnlyOnActivationTick ==
    Translated =>
        \A v \in ViewIds, r \in Receivers :
            /\ start[v].axis[r].press.variant = "Pressed"
            /\ \A i \in 1..Len(batch) : Targets(i, v, r) => ~InDeadZone(batch[i].value)
            => views[v].axis[r].press # Pressed(None)

(***************************************************************************)
(* C5. just_pressed() of Pressed(Some(t)) is true exactly when now - t is  *)
(* at most one millisecond; of Pressed(None) it is true, of Released false.*)
(***************************************************************************)
C5_JustPressedWithinOneMilli ==
    call.op = "just_pressed" /\ call.ret # None =>
        LET s == call.self
        IN  call.ret[1] =
                (/\ s.variant = "Pressed"
                 /\ (s.started_pressing_instant # None
                        => now - s.started_pressing_instant[1] <= JustPressedMillis * UnitsPerMilli))

(***************************************************************************)
(* C6. Two-tick protocol: a receiver the translator left Pressed(None) is  *)
(* just pressed; once stamped, and with no further event for it in the     *)
(* tick, it is not just pressed whenever more than one millisecond has     *)
(* passed since its instant.                                               *)
(***************************************************************************)
C6_TwoTickPress ==
    Translated =>
        \A v \in ViewIds, r \in Receivers :
            LET s == views[v].axis[r].press
            IN  /\ s = Pressed(None) => just_pressed(s, now)
                /\ (/\ s.variant = "Pressed"
                    /\ s.started_pressing_instant # None
                    /\ \A i \in 1..Len(batch) : ~Targets(i, v, r)
                    /\ now - s.started_pressing_instant[1] > JustPressedMillis * UnitsPerMilli)
                   => ~just_pressed(s, now)

(***************************************************************************)
(* C7. Once the translator has run over the batch, every receiver some     *)
(* event of the batch was written to holds exactly the value and the       *)
(* classification of the last such event in arrival order.                 *)
(***************************************************************************)
C7_LastEventWins ==
    Translated =>
        \A v \in ViewIds, r \in Receivers :
            LET hits == {i \in 1..Len(batch) : Targets(i, v, r)}
            IN  hits # {} =>
                    LET last == CHOOSE i \in hits : \A j \in hits : j <= i
                    IN  views[v].axis[r]
                            = AxisState_new(batch[last].value, Classified(batch[last].value))

\* A press followed, in the same batch and for the same receiver, by a dead-zone
\* reading: the receiver ends released with the later value.
C7_Witness ==
    /\ Translated
    /\ Len(batch) = 2
    /\ Matched(batch[1])
    /\ Matched(batch[2])
    /\ batch[1].gamepad = batch[2].gamepad
    /\ ReceiverOf(batch[1]) = ReceiverOf(batch[2])
    /\ batch[1].value = F(90)
    /\ batch[2].value = F(5)
    /\ views[FirstBound(batch[2])].axis[ReceiverOf(batch[2])] = AxisState_new(F(5), Released)

(***************************************************************************)
(* C8. A ButtonChanged or AxisChanged event for a bound gamepad leaves the *)
(* first view bound to it with last_input_source = Gamepad, pressed or in  *)
(* the dead zone alike; an event for a gamepad no marker is bound to       *)
(* changes no view's last_input_source.                                    *)
(***************************************************************************)
C8_LastInputSource ==
    [][TranslateStep =>
        LET ev == batch[idx]
        IN  /\ Matched(ev) => views'[FirstBound(ev)].last_input_source = Some("Gamepad")
            /\ ~Bound(ev) =>
                 \A v \in ViewIds : views'[v].last_input_source = views[v].last_input_source
      ]_vars

\* A dead-zone button reading moved the source of a keyboard-driven view to Gamepad.
C8_Witness ==
    /\ idx = 2
    /\ Matched(batch[1])
    /\ batch[1].event_type = "ButtonChanged"
    /\ InDeadZone(batch[1].value)
    /\ start[FirstBound(batch[1])].last_input_source = Some("Keyboard")
    /\ views[FirstBound(batch[1])].last_input_source = Some("Gamepad")
    /\ views[FirstBound(batch[1])].axis[ReceiverOf(batch[1])].press = Released

(***************************************************************************)
(* C9. A receiver no event of the tick so far was written to holds the     *)
(* press state and value it had when the tick began.                       *)
(***************************************************************************)
C9_StatePersists ==
    idx >= 1 =>
        \A v \in ViewIds, r \in Receivers :
            (\A i \in 1..(idx - 1) : ~Targets(i, v, r))
                => views[v].axis[r] = start[v].axis[r]

\* In a later tick a receiver pressed and stamped earlier is still pressed with its
\* instant, after a batch that wrote only to another receiver of the same view.
C9_Witness ==
    /\ tick > 1
    /\ Translated
    /\ Len(batch) > 0
    /\ \E v \in ViewIds, r \in Receivers :
        /\ \A i \in 1..Len(batch) : ~Targets(i, v, r)
        /\ \E i \in 1..Len(batch) : \E q \in Receivers : Targets(i, v, q)
        /\ start[v].axis[r].press.variant = "Pressed"
        /\ start[v].axis[r].press.started_pressing_instant # None
        /\ views[v].axis[r] = start[v].axis[r]

(***************************************************************************)
(* C10. cmp orders Released below every Pressed state, Pressed states with *)
(* instants by their instants, and Pressed(None) below every Pressed state *)
(* with an instant.                                                        *)
(***************************************************************************)
C10_Ordering ==
    call.op = "cmp" /\ call.ret # None =>
        LET a == call.self
            b == call.other
            c == call.ret[1]
            ta == a.started_pressing_instant
            tb == b.started_pressing_instant
        IN  /\ a.variant = "Released" /\ b.variant = "Pressed" => c = "Less"
            /\ a.variant = "Pressed" /\ b.variant = "Released" => c = "Greater"
            /\ (/\ a.variant = "Pressed" /\ b.variant = "Pressed"
                /\ ta # None /\ tb # None /\ ta[1] < tb[1]) => c = "Less"
            /\ (/\ a.variant = "Pressed" /\ b.variant = "Pressed"
                /\ ta = None /\ tb # None) => c = "Less"

\* Pressed(None) was compared with a stamped press and came out Less.
C10_Witness ==
    /\ call.op = "cmp"
    /\ call.self = Pressed(None)
    /\ call.other = Pressed(Some(0))
    /\ call.ret = Some("Less")

(***************************************************************************)
(* C11. Whatever series of aggregate calls is made, the slice iterator     *)
(* returns what the Vec over the same elements returns.                    *)
(***************************************************************************)
C11_IterAgreesWithVec == agg.iter_ret = agg.vec_ret

(***************************************************************************)
(* C12. On a Vec, is_all_pressed / is_all_just_pressed / is_all_released   *)
(* is true exactly when every element is pressed / just pressed /          *)
(* released (so always for the empty Vec), and the Vec is left as it was.  *)
(***************************************************************************)
C12_VecUniversal ==
    [][agg'.calls = agg.calls + 1 =>
        /\ agg'.elems = agg.elems
        /\ agg'.vec_ret =
             Some(\A i \in 1..Len(agg.elems) :
                    LET s == agg.elems[i].press
                    IN  CASE agg'.op = "is_all_pressed" -> s.variant = "Pressed"
                          [] agg'.op = "is_all_just_pressed" ->
                                /\ s.variant = "Pressed"
                                /\ (s.started_pressing_instant # None =>
                                      (now - s.started_pressing_instant[1]) \div UnitsPerMilli
                                          <= JustPressedMillis)
                          [] agg'.op = "is_all_released" -> s.variant = "Released")
      ]_vars

\* is_all_pressed was called on the empty Vec and returned true.
C12_Witness ==
    /\ agg.calls > 0
    /\ agg.op = "is_all_pressed"
    /\ agg.elems = <<>>
    /\ agg.vec_ret = Some(TRUE)

C14_Elapsed ==
    call.op = "elapsed" /\ call.ret # None =>
        LET s == call.self
            e == call.ret[1]
        IN  /\ s.variant = "Released" => e = None
            /\ s = Pressed(None) => e = Some(0)
            /\ (s.variant = "Pressed" /\ s.started_pressing_instant # None)
                  => e = Some(now - s.started_pressing_instant[1])
            /\ (e # None) = (s.variant = "Pressed")

\* elapsed() of Pressed(None) is the zero duration.
C14_Witness ==
    /\ call.op = "elapsed"
    /\ call.self = Pressed(None)
    /\ call.ret = Some(Some(0))

(***************************************************************************)
(* C16. The comparison is a total order on press states: any two states    *)
(* compare, cmp(b, a) is the reverse of cmp(a, b), the order is            *)
(* transitive, and two states compare Equal exactly when they are equal.   *)
(***************************************************************************)
Reverse(o) == CASE o = "Less" -> "Greater" [] o = "Greater" -> "Less" [] OTHER -> o

C16_TotalOrder ==
    call.op = "cmp_all" /\ call.ret # None =>
        LET x == <<call.self, call.other, call.third>>
            c == call.ret[1]
            le(i, j) == c[<<i, j>>] \in {Some("Less"), Some("Equal")}
        IN  /\ \A p \in DOMAIN c : c[p] \in {Some("Less"), Some("Equal"), Some("Greater")}
            /\ \A i, j \in 1..3 : c[<<j, i>>] = Some(Reverse(c[<<i, j>>][1]))
            /\ \A i, j, k \in 1..3 : le(i, j) /\ le(j, k) => le(i, k)
            /\ \A i, j \in 1..3 : (c[<<i, j>>] = Some("Equal")) = (x[i] = x[j])

\* Three states, all different, all compared: Released, Pressed(None), Pressed(Some(0)).
C16_Witness ==
    /\ call.op = "cmp_all"
    /\ call.self = Pressed(Some(0))
    /\ call.other = Released
    /\ call.third = Pressed(None)
    /\ call.ret # None
    /\ call.ret[1][<<2, 3>>] = Some("Less")
    /\ call.ret[1][<<3, 1>>] = Some("Less")

(***************************************************************************)
(* C19. Of one state at one clock reading, exactly one of released() and   *)
(* pressed() is true, just_pressed() implies pressed(), is_pressed_for(d)  *)
(* implies pressed(), and is_pressed_for(d) implies is_pressed_for(e) for  *)
(* every e <= d.                                                           *)
(***************************************************************************)
C19_QueriesConsistent ==
    call.op = "queries" /\ call.ret # None =>
        LET q == call.ret[1]
        IN  /\ q.released # q.pressed
            /\ q.just_pressed => q.pressed
            /\ \A d \in Durations : q.is_pressed_for[d] => q.pressed
            /\ \A d, e \in Durations : e <= d /\ q.is_pressed_for[d] => q.is_pressed_for[e]

\* A press stamped one clock unit ago: pressed, just pressed, pressed for one unit
\* and for none, not for two.
C19_Witness ==
    /\ call.op = "queries"
    /\ call.ret # None
    /\ call.self = Pressed(Some(now - 1))
    /\ call.ret[1].pressed
    /\ ~call.ret[1].released
    /\ call.ret[1].just_pressed
    /\ call.ret[1].is_pressed_for[1]
    /\ call.ret[1].is_pressed_for[0]
    /\ ~call.ret[1].is_pressed_for[2]

(***************************************************************************)
(* C15. A ButtonChanged or AxisChanged event for a bound gamepad changes,  *)
(* of all receivers of all views, only the receiver it names in the first  *)
(* view bound to the gamepad; and of the last_input_source fields only     *)
(* that view's.                                                            *)
(***************************************************************************)
C15_OnlyTheNamedReceiver ==
    [][TranslateStep /\ Matched(batch[idx]) =>
        LET ev == batch[idx]
            v == FirstBound(ev)
            r == IF ev.event_type = "ButtonChanged"
                 THEN <<"GamepadButton", ev.kind>> ELSE <<"GamepadAxis", ev.kind>>
        IN  /\ \A w \in ViewIds : w # v => views'[w] = views[w]
            /\ \A q \in Receivers : q # r => views'[v].axis[q] = views[v].axis[q]
      ]_vars

\* A dead-zone reading of one button released it and left the other button and the
\* stick of the view held, and the other view as it was.
C15_Witness ==
    /\ idx = 2
    /\ markers[1] # markers[2]
    /\ start[1] = HeldView
    /\ batch[1] = ButtonChanged(markers[1], "South", F(5))
    /\ views[1].axis[GamepadButton("South")] = AxisState_new(F(5), Released)
    /\ views[1].axis[GamepadButton("East")] = start[1].axis[GamepadButton("East")]
    /\ views[1].axis[GamepadAxis("LeftStickX")] = start[1].axis[GamepadAxis("LeftStickX")]
    /\ views[2] = start[2]

(***************************************************************************)
(* Slots: the receivers of all views.                                      *)
(***************************************************************************)
Slots == ViewIds \X Receivers

PressOf(p) == views[p[1]].axis[p[2]].press

\* The press of slot p began in the current tick.
BeganThisTick(p) ==
    /\ start[p[1]].axis[p[2]].press.variant = "Released"
    /\ PressOf(p).variant = "Pressed"

\* Slot p was pressed when the tick began and no event of the tick released it.
HeldThroughTick(p) ==
    /\ start[p[1]].axis[p[2]].press.variant = "Pressed"
    /\ PressOf(p).variant = "Pressed"
    /\ \A i \in 1..Len(batch) : Targets(i, p[1], p[2]) => ~InDeadZone(batch[i].value)

Written(v, r) == \E i \in 1..(idx - 1) : Targets(i, v, r)

BeyondDeadZone(f) == ~f.nan /\ (f.x > DeadZone \/ f.x < -DeadZone)

C18_PressAgreesWithValue ==
    \A v \in ViewIds, r \in Receivers :
        Written(v, r) =>
            LET a == views[v].axis[r]
            IN  /\ (a.press.variant = "Pressed") = BeyondDeadZone(a.value)
                /\ (a.press.variant = "Released") = InDeadZone(a.value)

(***************************************************************************)
(* C18, amended. Every receiver an event of the batch was written to is    *)
(* Released exactly when |value| <= 0.1 and pressed otherwise, that is     *)
(* when |value| > 0.1 or the value is NaN.                                 *)
(***************************************************************************)
C18_PressAgreesWithDeadZone ==
    \A v \in ViewIds, r \in Receivers :
        Written(v, r) =>
            LET a == views[v].axis[r]
            IN  /\ (a.press.variant = "Released") = InDeadZone(a.value)
                /\ (a.press.variant = "Pressed") = (BeyondDeadZone(a.value) \/ a.value.nan)

\* A NaN reading was written: the receiver is pressed and holds NaN.
C18_Witness ==
    \E v \in ViewIds, r \in Receivers :
        /\ Written(v, r)
        /\ views[v].axis[r] = AxisState_new(NaN, Pressed(None))

====
